---- MODULE Spec2Model ----
(***************************************************************************)
(* Model of backend/main.py: the Words API.                                *)
(*                                                                         *)
(* load_words() reads the CSV once behind functools.lru_cache(maxsize=1);  *)
(* get_words(q, page, limit) is a synchronous FastAPI endpoint, so every   *)
(* request runs on a worker thread of the server's thread pool.            *)
(*                                                                         *)
(* Python values are encoded as follows.                                   *)
(*   str            a sequence of one-character strings                    *)
(*   Optional[x]    << >> for None, << x >> for a value                    *)
(*   raw query int  [kind |-> "absent" | "int" | "bad", val |-> n]         *)
(***************************************************************************)
EXTENDS Integers, Sequences, FiniteSets, TLC

VARIABLES fileExists, fileRows, cache, reads, pc, req, all_words, items,
          filtered, resp

vars == <<fileExists, fileRows, cache, reads, pc, req, all_words, items,
          filtered, resp>>

----------------------------------------------------------------------------
(* Bounds of the model *)

NumWorkers == 2
MaxRows == 3
MaxColdRows == 2

----------------------------------------------------------------------------
(* Python values *)

None == << >>
Some(v) == << v >>
IsNone(o) == Len(o) = 0
Val(o) == o[1]

Min(a, b) == IF a < b THEN a ELSE b
Max(a, b) == IF a > b THEN a ELSE b

Whitespace == {" "}

LowerChar(c) ==
  CASE c = "A" -> "a"
    [] c = "B" -> "b"
    [] c = "C" -> "c"
    [] c = "E" -> "e"
    [] OTHER -> c

\* str.lower()
Lower(s) == [i \in 1..Len(s) |-> LowerChar(s[i])]

RECURSIVE LStrip(_)
LStrip(s) ==
  IF s = << >> THEN << >>
  ELSE IF Head(s) \in Whitespace THEN LStrip(Tail(s)) ELSE s

RECURSIVE RStrip(_)
RStrip(s) ==
  IF s = << >> THEN << >>
  ELSE IF s[Len(s)] \in Whitespace THEN RStrip(SubSeq(s, 1, Len(s) - 1)) ELSE s

\* str.strip()
Strip(s) == RStrip(LStrip(s))

\* needle in haystack
Contains(needle, hay) ==
  \E i \in 0..(Len(hay) - Len(needle)) :
    SubSeq(hay, i + 1, i + Len(needle)) = needle

\* (x or "") for an Optional[str]
OrEmpty(o) == IF IsNone(o) \/ Val(o) = << >> THEN << >> ELSE Val(o)

\* seq[start:end] for list slicing
PySlice(s, start, end) ==
  LET n == Len(s)
      lo == IF start < 0 THEN Max(n + start, 0) ELSE Min(start, n)
      hi == IF end < 0 THEN Max(n + end, 0) ELSE Min(end, n)
  IN  IF lo >= hi THEN << >> ELSE SubSeq(s, lo + 1, hi)

----------------------------------------------------------------------------
(* load_words *)

Columns == {"word", "pronunciation", "definition", "example", "audio",
            "image", "file", "part_of_speech", "word_uz"}

\* (row.get(col) or "").strip()
Field(row, col) == Strip(OrEmpty(row[col]))

\* the dict appended for row number idx (enumerate(reader, start=1))
MakeRecord(idx, row) ==
  [id             |-> idx,
   word           |-> Field(row, "word"),
   pronunciation  |-> Field(row, "pronunciation"),
   definition     |-> Field(row, "definition"),
   example        |-> Field(row, "example"),
   audio          |-> Field(row, "audio"),
   image          |-> Field(row, "image"),
   file           |-> Field(row, "file"),
   part_of_speech |-> Field(row, "part_of_speech"),
   word_uz        |-> Field(row, "word_uz")]

\* the list load_words returns for a source holding rows
load_words(rows) == [i \in 1..Len(rows) |-> MakeRecord(i, rows[i])]

\* lru_cache(maxsize=1): the first result stored under the key stays
CacheStore(cur, result) == IF IsNone(cur) THEN Some(result) ELSE cur

----------------------------------------------------------------------------
(* get_words: parameter validation (fastapi.Query constraints) *)

Absent == [kind |-> "absent", val |-> 0]
IntArg(n) == [kind |-> "int", val |-> n]
BadArg == [kind |-> "bad", val |-> 0]

\* variant: the page constraint written ge=0
PageValid_ge0(p) == p.kind = "absent" \/ (p.kind = "int" /\ p.val >= 0)

\* page: int | None = Query(default=None, ge=1)
PageValid(p) == p.kind = "absent" \/ (p.kind = "int" /\ p.val >= 1)

\* limit: int | None = Query(default=None, ge=1, le=500)
LimitValid(l) == l.kind = "absent" \/ (l.kind = "int" /\ l.val >= 1 /\ l.val <= 500)

RequestValid(r) == PageValid(r.page) /\ LimitValid(r.limit)

\* the Optional[int] the handler receives for a validated raw parameter
Arg(p) == IF p.kind = "absent" THEN None ELSE Some(p.val)

----------------------------------------------------------------------------
(* get_words: handler body *)

DefaultPage == 1
DefaultLimit == 50

\* variant: any(v for v in (q, page, limit)), deciding by value
wants_pagination_by_value(q, page, limit) ==
  \/ (~IsNone(q) /\ Val(q) # << >>)
  \/ (~IsNone(page) /\ Val(page) # 0)
  \/ (~IsNone(limit) /\ Val(limit) # 0)

\* any(v is not None for v in (q, page, limit))
wants_pagination(q, page, limit) ==
  ~IsNone(q) \/ ~IsNone(page) \/ ~IsNone(limit)

\* q is not None and q.strip()
HasNeedle(q) == ~IsNone(q) /\ Strip(Val(q)) # << >>

\* q.strip().lower()
Needle(q) == Lower(Strip(Val(q)))

\* variant: the comprehension also searching pronunciation
Matches_pronunciation(item, needle) ==
  \/ Contains(needle, Lower(item.word))
  \/ Contains(needle, Lower(item.pronunciation))
  \/ Contains(needle, Lower(item.definition))
  \/ Contains(needle, Lower(item.example))
  \/ Contains(needle, Lower(item.word_uz))
  \/ Contains(needle, Lower(item.part_of_speech))

\* the condition of the list comprehension
Matches(item, needle) ==
  \/ Contains(needle, Lower(item.word))
  \/ Contains(needle, Lower(item.definition))
  \/ Contains(needle, Lower(item.example))
  \/ Contains(needle, Lower(item.word_uz))
  \/ Contains(needle, Lower(item.part_of_speech))

RECURSIVE Comprehension(_, _)
Comprehension(words, needle) ==
  IF words = << >> THEN << >>
  ELSE IF Matches(Head(words), needle)
       THEN <<Head(words)>> \o Comprehension(Tail(words), needle)
       ELSE Comprehension(Tail(words), needle)

Filter(words, q) ==
  IF HasNeedle(q) THEN Comprehension(words, Needle(q)) ELSE words

\* page_value = page or 1
page_value(page) == IF IsNone(page) \/ Val(page) = 0 THEN DefaultPage ELSE Val(page)

\* variant: limit_value = limit or 500
limit_value_max(limit) == IF IsNone(limit) \/ Val(limit) = 0 THEN 500 ELSE Val(limit)

\* limit_value = limit or 50
limit_value(limit) == IF IsNone(limit) \/ Val(limit) = 0 THEN DefaultLimit ELSE Val(limit)

\* variant: start = page_value * limit_value
Start_zero_based(pv, lv) == pv * lv

\* start = (page_value - 1) * limit_value
Start(pv, lv) == (pv - 1) * lv

\* variant: end = start + limit_value + 1
End_inclusive(pv, lv) == (pv - 1) * lv + lv + 1

\* end = start + limit_value
End(pv, lv) == Start(pv, lv) + lv

\* items = filtered[start:end]
PageItems(f, pv, lv) == PySlice(f, Start(pv, lv), End(pv, lv))

\* variant: pages = total // limit_value
Pages_floor(total, lv) == IF lv # 0 THEN total \div lv ELSE 1

\* pages = (total + limit_value - 1) // limit_value if limit_value else 1
Pages(total, lv) == IF lv # 0 THEN (total + lv - 1) \div lv ELSE 1

\* q or ""
MetaQ(q) == OrEmpty(q)

NoMeta == [total |-> 0, page |-> 0, limit |-> 0, pages |-> 0, q |-> << >>]

NoResp == [status |-> 0, kind |-> "none", meta |-> NoMeta, items |-> << >>]

ErrorResp(code) == [status |-> code, kind |-> "error", meta |-> NoMeta, items |-> << >>]

\* the value get_words returns, given the list load_words returned
Respond(words, q, page, limit) ==
  LET f == Filter(words, q)
      pv == page_value(page)
      lv == limit_value(limit)
  IN  IF ~wants_pagination(q, page, limit)
      THEN [status |-> 200, kind |-> "list", meta |-> NoMeta, items |-> f]
      ELSE [status |-> 200, kind |-> "envelope",
            meta |-> [total |-> Len(f), page |-> pv, limit |-> lv,
                      pages |-> Pages(Len(f), lv), q |-> MetaQ(q)],
            items |-> PageItems(f, pv, lv)]

----------------------------------------------------------------------------
(* The backing CSV source: rows as csv.DictReader yields them, a missing   *)
(* column being None.                                                      *)

Row1 ==
  [word           |-> Some(<<" ", "A", "b", " ">>),
   pronunciation  |-> Some(<<"p">>),
   definition     |-> Some(<<"c">>),
   example        |-> None,
   audio          |-> None,
   image          |-> None,
   file           |-> None,
   part_of_speech |-> Some(<<"n">>),
   word_uz        |-> Some(<<"d">>)]

Row2 ==
  [word           |-> Some(<<"b">>),
   pronunciation  |-> Some(<<"a", "b">>),
   definition     |-> Some(<<"C", " ", "d">>),
   example        |-> Some(<<"e">>),
   audio          |-> Some(<<"a">>),
   image          |-> Some(<<"a", "b">>),
   file           |-> Some(<<" ", "a">>),
   part_of_speech |-> Some(<< >>),
   word_uz        |-> None]

Row3 ==
  [word           |-> None,
   pronunciation  |-> None,
   definition     |-> None,
   example        |-> Some(<<"B", "a">>),
   audio          |-> Some(<<"x">>),
   image          |-> None,
   file           |-> Some(<<"p">>),
   part_of_speech |-> Some(<<"A">>),
   word_uz        |-> Some(<<"E", " ">>)]

Palette == <<Row1, Row2, Row3>>

\* a source of n rows repeating the palette
Cycle(n) == [i \in 1..n |-> Palette[((i - 1) % Len(Palette)) + 1]]

LongSizes == {10, 52}

SmallSources == UNION {[1..n -> {Row1, Row2, Row3}] : n \in 0..MaxRows}

WarmSources == SmallSources \cup {Cycle(n) : n \in LongSizes}

ColdSources == {Cycle(n) : n \in 0..MaxColdRows}

----------------------------------------------------------------------------
(* Requests *)

Request(Qs, Ps, Ls) == [q : Qs, page : Ps, limit : Ls]

NoRequest == [q |-> None, page |-> Absent, limit |-> Absent]

WideQ == {None, Some(<< >>), Some(<<" ">>), Some(<<"a">>), Some(<<" ", "B", " ">>),
          Some(<<"a", "b">>), Some(<<"p">>), Some(<<"c", " ", "D">>),
          Some(<<"x">>), Some(<<"E">>)}

WidePage == {Absent, BadArg, IntArg(0), IntArg(1), IntArg(2), IntArg(4), IntArg(5)}

WideLimit == {Absent, BadArg, IntArg(0), IntArg(501), IntArg(1), IntArg(3),
              IntArg(50), IntArg(500)}

WideRequests == Request(WideQ, WidePage, WideLimit)

NarrowQ == {None}

NarrowPage == {Absent, IntArg(0)}

NarrowLimit == {Absent, IntArg(1)}

NarrowRequests == Request(NarrowQ, NarrowPage, NarrowLimit)

----------------------------------------------------------------------------
(* The server *)

Workers == 1..NumWorkers

Init ==
  /\ fileExists \in BOOLEAN
  /\ fileRows \in ColdSources
  /\ cache = None
  /\ reads = 0
  /\ pc = [t \in Workers |-> "idle"]
  /\ req = [t \in Workers |-> NoRequest]
  /\ all_words = [t \in Workers |-> << >>]
  /\ items = [t \in Workers |-> << >>]
  /\ filtered = [t \in Workers |-> << >>]
  /\ resp = [t \in Workers |-> NoResp]

\* the source is deployed
FileCreated ==
  /\ ~fileExists
  /\ fileExists' = TRUE
  /\ UNCHANGED <<fileRows, cache, reads, pc, req, all_words, items, filtered, resp>>

\* the source is removed
FileDeleted ==
  /\ fileExists
  /\ fileExists' = FALSE
  /\ UNCHANGED <<fileRows, cache, reads, pc, req, all_words, items, filtered, resp>>

\* a request fails validation of its query parameters: 422, handler not called
Reject(t, r) ==
  /\ pc[t] = "idle"
  /\ ~RequestValid(r)
  /\ req' = [req EXCEPT ![t] = r]
  /\ resp' = [resp EXCEPT ![t] = ErrorResp(422)]
  /\ pc' = [pc EXCEPT ![t] = "done"]
  /\ UNCHANGED <<fileExists, fileRows, cache, reads, all_words, items, filtered>>

\* a request passes validation: get_words is called on worker t
Accept(t, r) ==
  /\ pc[t] = "idle"
  /\ RequestValid(r)
  /\ req' = [req EXCEPT ![t] = r]
  /\ pc' = [pc EXCEPT ![t] = "call_load"]
  /\ UNCHANGED <<fileExists, fileRows, cache, reads, all_words, items, filtered, resp>>

\* all_words = load_words(), cache hit
LoadHit(t) ==
  /\ pc[t] = "call_load"
  /\ ~IsNone(cache)
  /\ all_words' = [all_words EXCEPT ![t] = Val(cache)]
  /\ pc' = [pc EXCEPT ![t] = "handler"]
  /\ UNCHANGED <<fileExists, fileRows, cache, reads, req, items, filtered, resp>>

\* variant: a missing source yields an empty list instead of raising
LoadMissing_empty(t) ==
  /\ pc[t] = "call_load"
  /\ IsNone(cache)
  /\ ~fileExists
  /\ cache' = Some(<< >>)
  /\ all_words' = [all_words EXCEPT ![t] = << >>]
  /\ pc' = [pc EXCEPT ![t] = "handler"]
  /\ UNCHANGED <<fileExists, fileRows, reads, req, items, filtered, resp>>

\* cache miss, WORDS_CSV_PATH.exists() is false: raise FileNotFoundError
LoadMissing(t) ==
  /\ pc[t] = "call_load"
  /\ IsNone(cache)
  /\ ~fileExists
  /\ resp' = [resp EXCEPT ![t] = ErrorResp(500)]
  /\ pc' = [pc EXCEPT ![t] = "done"]
  /\ UNCHANGED <<fileExists, fileRows, cache, reads, req, all_words, items, filtered>>

\* cache miss, WORDS_CSV_PATH.exists() is true
LoadExists(t) ==
  /\ pc[t] = "call_load"
  /\ IsNone(cache)
  /\ fileExists
  /\ pc' = [pc EXCEPT ![t] = "open"]
  /\ UNCHANGED <<fileExists, fileRows, cache, reads, req, all_words, items, filtered, resp>>

\* WORDS_CSV_PATH.open(): the source was removed since exists()
LoadOpenFails(t) ==
  /\ pc[t] = "open"
  /\ ~fileExists
  /\ resp' = [resp EXCEPT ![t] = ErrorResp(500)]
  /\ pc' = [pc EXCEPT ![t] = "done"]
  /\ UNCHANGED <<fileExists, fileRows, cache, reads, req, all_words, items, filtered>>

\* WORDS_CSV_PATH.open(); items = []
LoadOpen(t) ==
  /\ pc[t] = "open"
  /\ fileExists
  /\ reads' = reads + 1
  /\ items' = [items EXCEPT ![t] = << >>]
  /\ pc' = [pc EXCEPT ![t] = "read"]
  /\ UNCHANGED <<fileExists, fileRows, cache, req, all_words, filtered, resp>>

\* one iteration of the loop over the reader
LoadRow(t) ==
  /\ pc[t] = "read"
  /\ Len(items[t]) < Len(fileRows)
  /\ LET idx == Len(items[t]) + 1
     IN  items' = [items EXCEPT ![t] = Append(@, MakeRecord(idx, fileRows[idx]))]
  /\ UNCHANGED <<fileExists, fileRows, cache, reads, pc, req, all_words, filtered, resp>>

\* return items: lru_cache stores the result, the caller receives it
LoadReturn(t) ==
  /\ pc[t] = "read"
  /\ Len(items[t]) = Len(fileRows)
  /\ cache' = CacheStore(cache, items[t])
  /\ all_words' = [all_words EXCEPT ![t] = items[t]]
  /\ items' = [items EXCEPT ![t] = << >>]
  /\ pc' = [pc EXCEPT ![t] = "handler"]
  /\ UNCHANGED <<fileExists, fileRows, reads, req, filtered, resp>>

\* variant: the page is cut out of the list in place (del filtered[end:],
\* del filtered[:start]) while filtered still aliases the memoized list
Handler_in_place(t) ==
  /\ pc[t] = "handler"
  /\ filtered' = [filtered EXCEPT ![t] = Filter(all_words[t], req[t].q)]
  /\ resp' = [resp EXCEPT ![t] =
                Respond(all_words[t], req[t].q, Arg(req[t].page), Arg(req[t].limit))]
  /\ cache' = IF /\ ~HasNeedle(req[t].q)
                 /\ wants_pagination(req[t].q, Arg(req[t].page), Arg(req[t].limit))
                 /\ ~IsNone(cache)
              THEN Some(PageItems(Val(cache), page_value(Arg(req[t].page)),
                                  limit_value(Arg(req[t].limit))))
              ELSE cache
  /\ all_words' = [all_words EXCEPT ![t] = << >>]
  /\ pc' = [pc EXCEPT ![t] = "done"]
  /\ UNCHANGED <<fileExists, fileRows, reads, req, items>>

\* the body of get_words after load_words() returned
Handler(t) ==
  /\ pc[t] = "handler"
  /\ filtered' = [filtered EXCEPT ![t] = Filter(all_words[t], req[t].q)]
  /\ resp' = [resp EXCEPT ![t] =
                Respond(all_words[t], req[t].q, Arg(req[t].page), Arg(req[t].limit))]
  /\ all_words' = [all_words EXCEPT ![t] = << >>]
  /\ pc' = [pc EXCEPT ![t] = "done"]
  /\ UNCHANGED <<fileExists, fileRows, cache, reads, req, items>>

\* the response is sent and the worker is free again
Finish(t) ==
  /\ pc[t] = "done"
  /\ pc' = [pc EXCEPT ![t] = "idle"]
  /\ req' = [req EXCEPT ![t] = NoRequest]
  /\ filtered' = [filtered EXCEPT ![t] = << >>]
  /\ resp' = [resp EXCEPT ![t] = NoResp]
  /\ UNCHANGED <<fileExists, fileRows, cache, reads, all_words, items>>

Next ==
  \/ FileCreated
  \/ FileDeleted
  \/ \E t \in Workers : \E r \in NarrowRequests : Reject(t, r)
  \/ \E t \in Workers : \E r \in NarrowRequests : Accept(t, r)
  \/ \E t \in Workers : LoadHit(t)
  \/ \E t \in Workers : LoadMissing(t)
  \/ \E t \in Workers : LoadExists(t)
  \/ \E t \in Workers : LoadOpenFails(t)
  \/ \E t \in Workers : LoadOpen(t)
  \/ \E t \in Workers : LoadRow(t)
  \/ \E t \in Workers : LoadReturn(t)
  \/ \E t \in Workers : Handler(t)
  \/ \E t \in Workers : Finish(t)

Spec == Init /\ [][Next]_vars

(* The server with a single worker and a wide range of requests.           *)

NextSeq ==
  \/ FileCreated
  \/ FileDeleted
  \/ \E r \in WideRequests : Reject(1, r)
  \/ \E r \in WideRequests : Accept(1, r)
  \/ LoadHit(1)
  \/ LoadMissing(1)
  \/ LoadExists(1)
  \/ LoadOpenFails(1)
  \/ LoadOpen(1)
  \/ LoadRow(1)
  \/ LoadReturn(1)
  \/ Handler(1)
  \/ Finish(1)

SpecSeq == Init /\ [][NextSeq]_vars

(* The server once the dataset is memoized: one worker, a wide range of    *)
(* sources and requests.                                                   *)

InitWarm ==
  /\ fileExists = TRUE
  /\ fileRows \in WarmSources
  /\ cache = Some(load_words(fileRows))
  /\ reads = 1
  /\ pc = [t \in Workers |-> "idle"]
  /\ req = [t \in Workers |-> NoRequest]
  /\ all_words = [t \in Workers |-> << >>]
  /\ items = [t \in Workers |-> << >>]
  /\ filtered = [t \in Workers |-> << >>]
  /\ resp = [t \in Workers |-> NoResp]

NextWarm ==
  \/ \E r \in WideRequests : Reject(1, r)
  \/ \E r \in WideRequests : Accept(1, r)
  \/ LoadHit(1)
  \/ Handler(1)
  \/ Finish(1)

SpecWarm == InitWarm /\ [][NextWarm]_vars

----------------------------------------------------------------------------
(* Properties *)

Done200(t) == pc[t] = "done" /\ resp[t].status = 200

Enveloped(t) == Done200(t) /\ resp[t].kind = "envelope"

\* needle occurs in hay at some offset, character by character
IsSubstring(needle, hay) ==
  \E off \in 0..(Len(hay) - Len(needle)) :
    \A k \in 1..Len(needle) : hay[off + k] = needle[k]

SearchedColumns == {"word", "definition", "example", "word_uz", "part_of_speech"}

RecordMatches(R, needle) ==
  \E col \in SearchedColumns : IsSubstring(needle, Lower(R[col]))

AllAbsent(r) == IsNone(r.q) /\ r.page.kind = "absent" /\ r.limit.kind = "absent"

\* C1: with q, page and limit all absent the response is the bare list, equal
\* in length and order to the loaded dataset; with any of the three supplied
\* (q = "" included) the response is the {meta, items} envelope.
C1_ModeByPresence ==
  \A t \in Workers :
    Done200(t) =>
      IF AllAbsent(req[t])
      THEN resp[t].kind = "list" /\ resp[t].items = Val(cache)
      ELSE resp[t].kind = "envelope"

C1_Witness ==
  /\ Enveloped(1)
  /\ req[1] = [q |-> Some(<< >>), page |-> Absent, limit |-> Absent]
  /\ Len(Val(cache)) > 0

C3_PageSlice ==
  \A t \in Workers :
    (pc[t] = "done" /\ resp[t].status # 422 /\ ~AllAbsent(req[t])) =>
      LET f == filtered[t]
          m == resp[t].meta
          off == (m.page - 1) * m.limit
          got == resp[t].items
      IN  /\ Enveloped(t)
          /\ m.page >= 1 /\ m.limit \in 1..500
          /\ Len(got) = (IF off >= Len(f) THEN 0 ELSE Min(m.limit, Len(f) - off))
          /\ \A i \in 1..Len(got) : got[i] = f[off + i]

C3_Witness ==
  /\ Enveloped(1)
  /\ resp[1].meta.total = 10
  /\ resp[1].meta.limit = 3
  /\ resp[1].meta.page = 4
  /\ Len(resp[1].items) = 1

\* C4: meta.total is the length of the filtered sequence and meta.pages is
\* the ceiling of total / limit (0 when total = 0).
C4_TotalAndPages ==
  \A t \in Workers :
    Enveloped(t) =>
      LET m == resp[t].meta
      IN  /\ m.total = Len(filtered[t])
          /\ m.limit >= 1
          /\ m.pages >= 0
          /\ m.pages * m.limit >= m.total
          /\ (m.pages - 1) * m.limit < m.total
          /\ (m.total = 0 => m.pages = 0)

C4_Witness ==
  /\ Enveloped(1)
  /\ resp[1].meta.total = 10
  /\ resp[1].meta.limit = 3
  /\ resp[1].meta.pages = 4

\* C6: meta.page is the supplied page or 1, meta.limit the supplied limit or
\* 50, meta.q the supplied q unchanged or ""; a request with only page=2 gets
\* filtered[50:100].
C6_Defaults ==
  \A t \in Workers :
    Enveloped(t) =>
      LET r == req[t]
          m == resp[t].meta
          f == filtered[t]
      IN  /\ m.page = (IF r.page.kind = "absent" THEN 1 ELSE r.page.val)
          /\ m.limit = (IF r.limit.kind = "absent" THEN 50 ELSE r.limit.val)
          /\ m.q = (IF IsNone(r.q) THEN << >> ELSE Val(r.q))
          /\ (IsNone(r.q) /\ r.page = IntArg(2) /\ r.limit.kind = "absent") =>
               resp[t].items = (IF Len(f) <= 50 THEN << >>
                                ELSE SubSeq(f, 51, Min(100, Len(f))))

C6_Witness ==
  /\ Enveloped(1)
  /\ req[1] = [q |-> None, page |-> IntArg(2), limit |-> Absent]
  /\ Len(resp[1].items) > 0

RECURSIVE ConcatPages(_, _, _)
ConcatPages(f, n, L) ==
  IF n = 0 THEN << >> ELSE ConcatPages(f, n - 1, L) \o PageItems(f, n, L)

\* C10: for fixed q and limit L the pages 1..meta.pages concatenate to the
\* filtered sequence; every page before the last has L items, the last has
\* 1..L items when total > 0, later pages are empty, and total = 0 gives
\* meta.pages = 0 below the reported page.
C10_PagesPartition ==
  \A t \in Workers :
    Enveloped(t) =>
      LET f == filtered[t]
          m == resp[t].meta
          L == m.limit
          n == m.pages
      IN  /\ resp[t].items = PageItems(f, m.page, L)
          /\ ConcatPages(f, n, L) = f
          /\ \A p \in 1..(n - 1) : Len(PageItems(f, p, L)) = L
          /\ (m.total > 0 => Len(PageItems(f, n, L)) \in 1..L)
          /\ \A p \in (n + 1)..(n + 3) : Len(PageItems(f, p, L)) = 0
          /\ (m.page > n => resp[t].items = << >>)
          /\ (m.total = 0 => n = 0 /\ m.page > n)

C10_Witness ==
  /\ Enveloped(1)
  /\ resp[1].meta.pages = 4
  /\ resp[1].meta.total % resp[1].meta.limit # 0
  /\ resp[1].meta.page = 2
  /\ Len(resp[1].items) = resp[1].meta.limit

----------------------------------------------------------------------------
(* Properties of the loader and of the request boundary *)

\* C5: under any interleaving the source is read at most once, every request
\* receives the same fully built record sequence and none a partial one.
C5_SingleFlight ==
  /\ reads <= 1
  /\ \A t \in Workers : pc[t] = "handler" => all_words[t] = load_words(fileRows)
  /\ (~IsNone(cache) => Val(cache) = load_words(fileRows))

\* C7: once loaded, the memoized sequence (its length, the ids 1..n in row
\* order and every field) is never changed by any request, and requests with
\* identical q, page and limit get identical responses, each response being
\* determined by the memoized sequence and the request alone.
C7_DatasetImmutable ==
  [][ /\ (~IsNone(cache) => cache' = cache)
      /\ (~IsNone(cache') =>
            /\ Len(Val(cache')) = Len(fileRows)
            /\ \A i \in 1..Len(fileRows) :
                 /\ Val(cache')[i].id = i
                 /\ \A col \in Columns :
                      Val(cache')[i][col] = Strip(OrEmpty(fileRows[i][col])))
      /\ \A t \in Workers :
           (pc'[t] = "done" /\ resp'[t].status = 200) =>
             /\ ~IsNone(cache')
             /\ resp'[t] = Respond(Val(cache'), req'[t].q,
                                   Arg(req'[t].page), Arg(req'[t].limit))
             /\ \A u \in Workers :
                  (pc'[u] = "done" /\ resp'[u].status = 200 /\ req'[u] = req'[t])
                    => resp'[u] = resp'[t]
    ]_vars

\* two workers hold responses of both modes computed from a loaded dataset
C7_Witness ==
  /\ ~IsNone(cache)
  /\ Len(Val(cache)) >= 2
  /\ \E t \in Workers : \E u \in Workers :
       /\ Done200(t) /\ resp[t].kind = "list" /\ resp[t].items = Val(cache)
       /\ Done200(u) /\ resp[u].kind = "envelope" /\ Len(resp[u].items) = 1

IsValidRequest(r) ==
  /\ r.page.kind = "absent" \/ (r.page.kind = "int" /\ r.page.val >= 1)
  /\ r.limit.kind = "absent" \/ (r.limit.kind = "int" /\ r.limit.val \in 1..500)

\* C8: a request with page < 1 or not an integer, or limit outside [1,500]
\* or not an integer, is answered with a client error without load_words or
\* the handler body running and without a change to the memoized state; the
\* handler body only runs with page absent or >= 1 and limit absent or in
\* [1,500].
C8_RejectedAtBoundary ==
  [][ \A t \in Workers :
        /\ (pc[t] = "idle" /\ pc'[t] # "idle" /\ ~IsValidRequest(req'[t])) =>
             /\ pc'[t] = "done"
             /\ resp'[t].status \in 400..499
             /\ cache' = cache
             /\ reads' = reads
             /\ all_words' = all_words
             /\ filtered' = filtered
        /\ (pc'[t] \in {"call_load", "open", "read", "handler"}
              \/ (pc'[t] = "done" /\ resp'[t].status \notin 400..499))
             => IsValidRequest(req'[t])
    ]_vars

C8_Witness ==
  /\ pc[1] = "done"
  /\ resp[1].status = 422
  /\ req[1].page = BadArg
  /\ req[1].limit = IntArg(501)
  /\ IsNone(cache)
  /\ reads = 0
  /\ fileExists

\* C9: a request that needs the dataset loaded while the source does not
\* exist ends in an error, never in a successful empty list or envelope; the
\* load is not retried and memoizes nothing.
C9_MissingSourceFails ==
  [][ /\ \A t \in Workers :
           ( /\ ~fileExists
             /\ (pc[t] = "call_load" /\ IsNone(cache)) \/ pc[t] = "open"
             /\ pc'[t] # pc[t] ) =>
               /\ pc'[t] = "done"
               /\ resp'[t].status \in 500..599
               /\ resp'[t].kind = "error"
               /\ cache' = cache
               /\ reads' = reads
      /\ (~IsNone(cache') => Len(Val(cache')) = Len(fileRows))
    ]_vars

C9_Witness ==
  /\ ~fileExists
  /\ IsNone(cache)
  /\ reads = 0
  /\ Len(fileRows) > 0
  /\ \E t \in Workers : pc[t] = "done" /\ resp[t].status = 500

====
